---- MODULE Spec2Model ----
(***************************************************************************)
(* Grand River Analytics: the anonymous-identity cookie (gra_uid) and the  *)
(* like endpoint of src/app.py, with the CSRF gate of src/utils/auth.py    *)
(* and the post_likes table of src/utils/db.py.                            *)
(*                                                                         *)
(* A request is handled in steps; every SQL statement is one atomic step   *)
(* and requests in different slots interleave between statements.          *)
(* A post_likes row is kept as (id, post_id, user_id): created_at is       *)
(* written by the INSERT and read by no statement of the program.          *)
(* Optional values (a missing cookie, form field, g attribute) are         *)
(* sequences of length at most one: <<>> is Python's None, <<v>> is v.     *)
(* Form-field text that the code trims and lower-cases is a sequence of    *)
(* one-character strings.                                                  *)
(***************************************************************************)
EXTENDS Integers, Sequences, FiniteSets

VARIABLES likes, next_id, req, before, last, racing, overtaken, inserted,
          sent, flask_session, now, token, valid,
          page_arg, total_count, shown

vars == <<likes, next_id, req, before, last, racing, overtaken, inserted,
          sent, flask_session, now, token, valid,
          page_arg, total_count, shown>>

-----------------------------------------------------------------------------
(* Bounds of the model *)

\* largest AUTOINCREMENT id the model hands out
MaxId == 2
\* the clock reading, in seconds, around which the requests arrive
Epoch == 100000

\* the clock is followed for this many seconds from the start, and for as
\* many from the moment one CSRF lifetime has passed
MaxSlack == 3

\* the largest number of published posts the reports page is tried with
MaxPosts == 20

\* request slots handled at the same time
Reqs == {"r1", "r2"}

-----------------------------------------------------------------------------
(* Program constants *)

CSRF_TTL_SECONDS == 3600

None == <<>>
Some(v) == <<v>>

\* Python truthiness of an optional string ("" and None are falsy)
Truthy(o) == o # None /\ o[1] # ""
\* Python truthiness of an optional text held as a character sequence
TruthyText(o) == o # None /\ o[1] # <<>>

-----------------------------------------------------------------------------
(* str.strip() and str.lower() on character sequences *)

UpperChars == <<"A","B","C","D","E","F","G","H","I","J","K","L","M",
                "N","O","P","Q","R","S","T","U","V","W","X","Y","Z">>
LowerChars == <<"a","b","c","d","e","f","g","h","i","j","k","l","m",
                "n","o","p","q","r","s","t","u","v","w","x","y","z">>
WhiteSpace == {" ", "\t", "\n"}

LowerChar(c) ==
    IF \E i \in 1..Len(UpperChars) : UpperChars[i] = c
    THEN LowerChars[CHOOSE i \in 1..Len(UpperChars) : UpperChars[i] = c]
    ELSE c

Lower(s) == [i \in 1..Len(s) |-> LowerChar(s[i])]

RECURSIVE LStrip(_)
LStrip(s) ==
    IF s # <<>> /\ Head(s) \in WhiteSpace THEN LStrip(Tail(s)) ELSE s

RECURSIVE RStrip(_)
RStrip(s) ==
    IF s # <<>> /\ s[Len(s)] \in WhiteSpace
    THEN RStrip(SubSeq(s, 1, Len(s) - 1))
    ELSE s

Strip(s) == RStrip(LStrip(s))

T_like == <<"l","i","k","e">>
T_unlike == <<"u","n","l","i","k","e">>
T_toggle == <<"t","o","g","g","l","e">>

\* (mutation) request.form.get("action", "toggle"): only a missing field
\* defaults
NormalizeAction_MissingOnly(field) ==
    Lower(Strip(IF field # None THEN field[1] ELSE T_toggle))

\* (mutation) the default applied after trimming
NormalizeAction_StripFirst(field) ==
    LET text == IF field = None THEN <<>> ELSE Strip(field[1])
    IN  Lower(IF text # <<>> THEN text ELSE T_toggle)

\* action = (request.form.get("action") or "toggle").strip().lower()
NormalizeAction(field) ==
    Lower(Strip(IF TruthyText(field) THEN field[1] ELSE T_toggle))

-----------------------------------------------------------------------------
(* The posts table (read-only here) *)

Posts == { [id |-> 1, slug |-> "welcome", published |-> TRUE],
           [id |-> 2, slug |-> "draft",   published |-> FALSE] }

\* SELECT ... FROM posts WHERE slug = ?   (fetchone: a row or None)
PostBySlug(slug) ==
    IF \E p \in Posts : p.slug = slug
    THEN Some(CHOOSE p \in Posts : p.slug = slug)
    ELSE None

-----------------------------------------------------------------------------
(* The post_likes table *)

\* (mutation) the SELECT without the user_id condition
LikeRows_AnyUser(tbl, post_id, user_id) ==
    { row \in tbl : row.post_id = post_id }

\* SELECT 1 FROM post_likes WHERE post_id = ? AND user_id = ?
LikeRows(tbl, post_id, user_id) ==
    { row \in tbl : row.post_id = post_id /\ row.user_id = user_id }

\* (mutation) COUNT(*) without the post_id condition
CountLikes_AllPosts(tbl, post_id) == Cardinality(tbl)

\* SELECT COUNT(*) FROM post_likes WHERE post_id = ?
\* (mutation) SELECT COUNT(DISTINCT post_id): 1 as soon as the post has a row
CountLikes_DistinctPost(tbl, post_id) ==
    IF { row \in tbl : row.post_id = post_id } = {} THEN 0 ELSE 1

CountLikes(tbl, post_id) ==
    Cardinality({ row \in tbl : row.post_id = post_id })

\* (mutation) the table declared without UNIQUE(post_id, user_id)
UniqueConflict_NoConstraint(tbl, post_id, user_id) == FALSE

\* UNIQUE(post_id, user_id): would inserting this pair raise IntegrityError?
\* (mutation) UNIQUE(post_id): one like per post
UniqueConflict_PerPost(tbl, post_id, user_id) ==
    \E row \in tbl : row.post_id = post_id

UniqueConflict(tbl, post_id, user_id) ==
    LikeRows(tbl, post_id, user_id) # {}

\* (mutation) DELETE without the user_id condition
DeleteLike_WholePost(tbl, post_id, user_id) ==
    { row \in tbl : row.post_id # post_id }

\* DELETE FROM post_likes WHERE post_id = ? AND user_id = ?
DeleteLike(tbl, post_id, user_id) ==
    tbl \ LikeRows(tbl, post_id, user_id)

-----------------------------------------------------------------------------
(* CSRF gate, src/utils/auth.py *)

\* the session is a client-held signed cookie: each request brings its own
NoSession == [token |-> None, ts |-> None]

\* request.get_json(silent=True): None, or the parsed body
EmptyDict == [is_dict |-> TRUE, csrf_token |-> None]
JsonDict(tok) == Some([is_dict |-> TRUE, csrf_token |-> tok])
JsonList == Some([is_dict |-> FALSE, csrf_token |-> None])

\* the token the request sent: form field, else header, else JSON body field
SentToken(form_tok, header_tok, json) ==
    IF Truthy(form_tok) THEN form_tok
    ELSE IF Truthy(header_tok) THEN header_tok
    ELSE LET payload == IF json = None THEN EmptyDict ELSE json[1]
         IN  IF payload.is_dict THEN payload.csrf_token ELSE header_tok

\* (mutation) a token is refused from the 3600th second on
validate_csrf_token_Strict(form_tok, header_tok, json, session, t) ==
    LET sent_token == SentToken(form_tok, header_tok, json)
        session_token == session.token
        issued_at == IF session.ts = None THEN 0 ELSE session.ts[1]
    IN  IF ~Truthy(sent_token) \/ ~Truthy(session_token) THEN FALSE
        ELSE IF sent_token # session_token THEN FALSE
        ELSE IF t - issued_at >= CSRF_TTL_SECONDS THEN FALSE
        ELSE TRUE

validate_csrf_token(form_tok, header_tok, json, session, t) ==
    LET sent_token == SentToken(form_tok, header_tok, json)
        session_token == session.token
        issued_at == IF session.ts = None THEN 0 ELSE session.ts[1]
    IN  IF ~Truthy(sent_token) \/ ~Truthy(session_token) THEN FALSE
        ELSE IF sent_token # session_token THEN FALSE
        ELSE IF t - issued_at > CSRF_TTL_SECONDS THEN FALSE
        ELSE TRUE

\* generate_csrf_token(): the token returned and the session it leaves;
\* fresh is what secrets.token_urlsafe(32) returns when it is called
generate_csrf_token(session, t, fresh) ==
    IF ~Truthy(session.token)
    THEN [token |-> fresh, session |-> [token |-> Some(fresh), ts |-> Some(t)]]
    ELSE [token |-> session.token[1], session |-> session]

CsrfMethods == {"POST", "PUT", "DELETE"}

\* TRUE when csrf_protect() aborts the request with 400
csrf_protect(method, form_tok, header_tok, json, session, t) ==
    method \in CsrfMethods
    /\ ~validate_csrf_token(form_tok, header_tok, json, session, t)

-----------------------------------------------------------------------------
(* Requests *)

Routes == {"post_detail", "post_like_api"}

\* methods each route accepts (app.route's methods; GET when not given)
RouteMethods(route) ==
    IF route = "post_like_api" THEN {"POST"} ELSE {"GET"}

\* what a request brings for the CSRF check: token carriers, session, and
\* the reading of time.time() when the check runs
CsrfCase(form_tok, header_tok, json, session, time) ==
    [form_tok |-> form_tok, header_tok |-> header_tok, json |-> json,
     session |-> session, time |-> time]

Session(tok, ts) == [token |-> Some(tok), ts |-> Some(ts)]

\* the action form field as sent
F_like == Some(T_like)
F_unlike == Some(T_unlike)
F_toggle == Some(T_toggle)
F_explode == Some(<<"e","x","p","l","o","d","e">>)

\* Inputs of the requests that race each other
RaceInputs ==
    [methods |-> {"GET", "POST"},
     cookies |-> {None, Some("G"), Some("H")},
     gen_ids |-> {"G"},
     slugs   |-> {"welcome", "no-such-post"},
     fields  |-> {None, F_like, F_unlike, F_explode},
     secure  |-> {FALSE},
     csrf    |-> { CsrfCase(None, None, None, NoSession, Epoch),
                   CsrfCase(Some("T1"), None, None, Session("T1", Epoch), Epoch) }]

\* Inputs of the requests handled one at a time
\*   cookies: a client may send any gra_uid value, there is no format check
\*   gen_ids: values secrets.token_urlsafe(16) may return
AllInputs ==
    [methods |-> {"GET", "POST", "PUT"},
     cookies |-> {None, Some(""), Some("G"), Some("H")},
     gen_ids |-> {"G", "H"},
     slugs   |-> {"welcome", "draft", "no-such-post"},
     secure  |-> BOOLEAN,
     fields  |-> { None, Some(<<>>), Some(<<" ">>),
                   F_like, Some(<<" ","L","i","k","E","\n">>),
                   F_unlike, F_toggle, Some(<<"\t","T","o","g","g","l","e">>),
                   F_explode },
     csrf    |-> { CsrfCase(None, None, None, NoSession, Epoch),
                   CsrfCase(None, None, None, Session("T1", Epoch), Epoch),
                   CsrfCase(Some("T1"), None, None, Session("T1", Epoch), Epoch),
                   CsrfCase(Some(""), Some("T1"), None, Session("T1", Epoch),
                            Epoch + CSRF_TTL_SECONDS),
                   CsrfCase(None, Some(""), JsonDict(Some("T1")),
                            Session("T1", Epoch), Epoch),
                   CsrfCase(None, Some("T2"), JsonDict(Some("T1")),
                            Session("T1", Epoch), Epoch),
                   CsrfCase(Some("T1"), None, None, Session("T1", Epoch),
                            Epoch + CSRF_TTL_SECONDS + 1),
                   CsrfCase(None, None, JsonList, Session("T1", Epoch), Epoch),
                   CsrfCase(Some("T1"), None, None,
                            [token |-> Some("T1"), ts |-> None], Epoch) }]

\* Inputs of the requests that try the CSRF gate: every token carrier, alone
\* and against the others, sessions without a token, and tokens of every age
GateInputs ==
    [methods |-> {"GET", "POST"},
     cookies |-> {Some("G")},
     gen_ids |-> {"G"},
     slugs   |-> {"welcome", "no-such-post"},
     fields  |-> {None, F_unlike, F_explode},
     secure  |-> {FALSE},
     csrf    |-> AllInputs.csrf \cup
                 { CsrfCase(Some("T2"), Some("T1"), JsonDict(Some("T1")),
                            Session("T1", Epoch), Epoch),
                   CsrfCase(None, Some("T1"), JsonDict(Some("T2")),
                            Session("T1", Epoch), Epoch),
                   CsrfCase(None, None, JsonDict(Some("T2")),
                            Session("T1", Epoch), Epoch),
                   CsrfCase(None, None, JsonDict(None),
                            Session("T1", Epoch), Epoch),
                   CsrfCase(Some("T1"), None, None, Session("T1", Epoch),
                            Epoch + CSRF_TTL_SECONDS - 1),
                   CsrfCase(None, Some("T1"), None, NoSession, Epoch),
                   CsrfCase(Some("T1"), None, None, Session("", Epoch), Epoch) }]

Idle ==
    [pc |-> "idle", cookie |-> None,
     anon_user_id |-> None, set_gra_uid |-> None,
     method |-> "", route |-> "", slug |-> "", field |-> None,
     post_id |-> 0, action |-> <<>>,
     currently_liked |-> FALSE, liked |-> FALSE,
     status |-> 0, body |-> "", count |-> 0,
     is_secure |-> FALSE, set_cookie |-> None]

\* abort(...) and routing errors: the response is fixed, the after_request
\* hooks still run
Abort(rec, status, body) ==
    [rec EXCEPT !.pc = "after", !.status = status, !.body = body]

-----------------------------------------------------------------------------
(* What a request asked for, read off the action field as it was sent *)

AsksLike(field) == field \in {F_like, Some(<<" ","L","i","k","E","\n">>)}
AsksUnlike(field) == field \in {F_unlike}
AsksToggle(field) ==
    field \in {None, Some(<<>>), F_toggle, Some(<<"\t","T","o","g","g","l","e">>)}
AsksNothingKnown(field) == field \in {Some(<<" ">>), F_explode}

Asked(field) ==
    IF AsksLike(field) THEN "like"
    ELSE IF AsksUnlike(field) THEN "unlike"
    ELSE IF AsksToggle(field) THEN "toggle"
    ELSE "other"

-----------------------------------------------------------------------------
(* reports_index: the page of the reports list *)

per_page == 9

DigitChars == <<"0", "1", "2", "3", "4", "5", "6", "7", "8", "9">>

IsDigit(c) == \E i \in 1..10 : DigitChars[i] = c
DigitValue(c) == (CHOOSE i \in 1..10 : DigitChars[i] = c) - 1

\* int(text): an optional sign, then digits, single underscores allowed
\* between digits; None stands for ValueError
Unsigned(s) == IF s # <<>> /\ s[1] \in {"+", "-"} THEN Tail(s) ELSE s

IsIntLiteral(b) ==
    /\ b # <<>>
    /\ IsDigit(b[1]) /\ IsDigit(b[Len(b)])
    /\ \A i \in 1..Len(b) : IsDigit(b[i]) \/ b[i] = "_"
    /\ \A i \in 1..(Len(b) - 1) : ~(b[i] = "_" /\ b[i + 1] = "_")

RECURSIVE DigitsValue(_, _)
DigitsValue(b, acc) ==
    IF b = <<>> THEN acc
    ELSE IF Head(b) = "_" THEN DigitsValue(Tail(b), acc)
    ELSE DigitsValue(Tail(b), 10 * acc + DigitValue(Head(b)))

ParseInt(text) ==
    LET s == Strip(text)
        b == Unsigned(s)
    IN  IF ~IsIntLiteral(b) THEN None
        ELSE IF s[1] = "-" THEN Some(0 - DigitsValue(b, 0))
        ELSE Some(DigitsValue(b, 0))

\* the decimal text of n >= 0, as url_for writes the page number into a link
RECURSIVE Decimal(_)
Decimal(n) ==
    IF n < 10 THEN <<DigitChars[n + 1]>>
    ELSE Append(Decimal(n \div 10), DigitChars[(n % 10) + 1])

Max(a, b) == IF a >= b THEN a ELSE b
Min(a, b) == IF a <= b THEN a ELSE b

\* (mutation) total_count // per_page: the last, partly filled page is lost
TotalPages_Floor(count) == Max(1, count \div per_page)

\* max(1, math.ceil(total_count / per_page))
TotalPages(count) == Max(1, (count + per_page - 1) \div per_page)

\* posts[start:end] of a list
Slice(list, start, end) == SubSeq(list, start + 1, Min(end, Len(list)))

\* the page query of the link url_for("reports_index", page=n) leads to
url_for(n) == Some(Decimal(n))

\* page_q: the page query value, None when the request has none;
\* the published posts are numbered 1..count in the order of the query
reports_index(page_q, count) ==
    LET page == Strip(IF page_q = None THEN <<"1">> ELSE page_q[1])
        parsed == ParseInt(page)
        asked == IF parsed = None THEN 1 ELSE Max(1, parsed[1])
        total_pages == TotalPages(count)
        page_num == Min(asked, total_pages)
        start == (page_num - 1) * per_page
        end == start + per_page
    IN  [page_num |-> page_num,
         total_pages |-> total_pages,
         posts |-> Slice([i \in 1..count |-> i], start, end),
         prev_url |-> IF page_num > 1 THEN url_for(page_num - 1) ELSE None,
         next_url |-> IF page_num < total_pages THEN url_for(page_num + 1)
                                                ELSE None]

\* page query values a client may send
PageQueries ==
    { None, Some(<<>>), Some(<<" ">>), Some(<<"a","b","c">>),
      Some(<<"0">>), Some(<<"-","3">>), Some(<<"1">>), Some(<<"2">>),
      Some(<<" ","2","\n">>), Some(<<"+","3">>), Some(<<"9","9">>),
      Some(<<"2",".","5">>), Some(<<"1","_","0">>), Some(<<"_","1">>),
      Some(<<"-">>), Some(<<"0","0","2">>) }

-----------------------------------------------------------------------------
(* State *)

TypeOK ==
    /\ \A row \in likes : row.id \in 1..(next_id - 1)
    /\ next_id \in 1..(MaxId + 1)
    /\ DOMAIN req = Reqs
    /\ before \subseteq {[id |-> i, post_id |-> p.id, user_id |-> u] :
                           i \in 1..MaxId, p \in Posts, u \in {"G", "H"}}

\* what is remembered of the request answered last, when it was a like
\* request answered 200: its post, visitor, what it asked for and its response
NoLast == [post_id |-> 0, user_id |-> "", asked |-> "",
           liked |-> FALSE, count |-> 0]

Summary(rec) ==
    IF rec.status = 200 /\ rec.route = "post_like_api"
    THEN [post_id |-> rec.post_id, user_id |-> rec.anon_user_id[1],
          asked |-> Asked(rec.field), liked |-> rec.liked, count |-> rec.count]
    ELSE NoLast

\* after create_app(): schema created, no likes, no request in flight
Init ==
    /\ likes = {}
    /\ next_id = 1
    /\ req = [r \in Reqs |-> Idle]
    /\ before = {}
    /\ last = NoLast
    /\ racing = {}
    /\ overtaken = {}
    /\ inserted = {}
    /\ sent = CsrfCase(None, None, None, NoSession, Epoch)
    /\ flask_session = NoSession
    /\ now = Epoch
    /\ token = None
    /\ valid = None
    /\ page_arg = None
    /\ total_count = 0
    /\ shown = reports_index(None, 0)

-----------------------------------------------------------------------------
(* before_request: settings, CSRF gate, Identity Assigner *)

\* (mutation) "if uid is None": an empty cookie value is kept as the id
before_request_NoneOnly(rec, method, cookie, csrf, gen) ==
    LET got == [rec EXCEPT !.method = method, !.cookie = cookie]
    IN  IF csrf_protect(method, csrf.form_tok, csrf.header_tok, csrf.json,
                        csrf.session, csrf.time)
        THEN Abort(got, 400, "Invalid CSRF token")
        ELSE IF cookie = None
        THEN [got EXCEPT !.pc = "dispatch",
                         !.set_gra_uid = Some(gen),
                         !.anon_user_id = Some(gen)]
        ELSE [got EXCEPT !.pc = "dispatch", !.anon_user_id = cookie]

before_request(rec, method, cookie, csrf, gen) ==
    LET got == [rec EXCEPT !.method = method, !.cookie = cookie]
    IN  IF csrf_protect(method, csrf.form_tok, csrf.header_tok, csrf.json,
                        csrf.session, csrf.time)
        THEN Abort(got, 400, "Invalid CSRF token")
        ELSE IF ~Truthy(cookie)
        THEN [got EXCEPT !.pc = "dispatch",
                         !.set_gra_uid = Some(gen),
                         !.anon_user_id = Some(gen)]
        ELSE [got EXCEPT !.pc = "dispatch", !.anon_user_id = cookie]

BeforeRequest(r, in) ==
    /\ req[r].pc = "idle"
    /\ \E method \in in.methods, cookie \in in.cookies, csrf \in in.csrf,
          gen \in in.gen_ids :
          req' = [req EXCEPT
                    ![r] = before_request(req[r], method, cookie, csrf, gen)]
    /\ UNCHANGED <<likes, next_id>>

\* URL routing: the view is chosen, or 405 when the route refuses the method
Dispatch(r, in) ==
    /\ req[r].pc = "dispatch"
    /\ \E route \in Routes, slug \in in.slugs :
          LET got == [req[r] EXCEPT !.route = route, !.slug = slug]
          IN  req' = [req EXCEPT ![r] =
                        IF req[r].method \in RouteMethods(route)
                        THEN [got EXCEPT !.pc = "view"]
                        ELSE Abort(got, 405, "")]
    /\ UNCHANGED <<likes, next_id>>

-----------------------------------------------------------------------------
(* post_like_api *)

\* (mutation) the action is validated before the post is looked up
post_like_lookup_ActionFirst(rec, field) ==
    LET row == PostBySlug(rec.slug)
        got == [rec EXCEPT !.field = field,
                           !.action = NormalizeAction(field),
                           !.post_id = IF row = None THEN 0 ELSE row[1].id]
    IN  IF got.action \notin {T_like, T_unlike, T_toggle}
        THEN Abort(got, 400, "Invalid action")
        ELSE IF row = None THEN Abort([rec EXCEPT !.field = field], 404, "")
        ELSE [got EXCEPT !.pc = "read"]

\* post lookup, action parsing, visitor id check
post_like_lookup(rec, field) ==
    LET row == PostBySlug(rec.slug)
    IN  IF row = None THEN Abort([rec EXCEPT !.field = field], 404, "")
        ELSE LET got == [rec EXCEPT !.field = field,
                                    !.action = NormalizeAction(field),
                                    !.post_id = row[1].id]
             IN  IF ~Truthy(rec.anon_user_id)
                 THEN Abort(got, 400, "Missing user id")
                 ELSE [got EXCEPT !.pc = "read"]

PostLikeLookup(r, in) ==
    /\ req[r].pc = "view"
    /\ req[r].route = "post_like_api"
    /\ \E field \in in.fields :
          req' = [req EXCEPT ![r] = post_like_lookup(req[r], field)]
    /\ UNCHANGED <<likes, next_id>>

\* toggle resolves against the row read now
ResolveAction(action, currently_liked) ==
    IF action = T_toggle
    THEN (IF currently_liked THEN T_unlike ELSE T_like)
    ELSE action

PostLikeRead(r) ==
    /\ req[r].pc = "read"
    /\ LET currently_liked ==
               LikeRows(likes, req[r].post_id, req[r].anon_user_id[1]) # {}
       IN  req' = [req EXCEPT ![r] =
                     [@ EXCEPT !.pc = "write",
                               !.currently_liked = currently_liked,
                               !.action = ResolveAction(req[r].action,
                                                        currently_liked),
                               !.liked = currently_liked]]
    /\ UNCHANGED <<likes, next_id>>

\* (mutation) the row is inserted without looking for a conflict
InsertLike_Blind(tbl, id, post_id, user_id) ==
    tbl \cup {[id |-> id, post_id |-> post_id, user_id |-> user_id]}

\* (mutation) INSERT OR REPLACE: the old row gives way to a new one
InsertLike_Replace(tbl, id, post_id, user_id) ==
    (tbl \ LikeRows(tbl, post_id, user_id))
        \cup {[id |-> id, post_id |-> post_id, user_id |-> user_id]}

\* INSERT INTO post_likes ...; commit, with IntegrityError swallowed
InsertLike(tbl, id, post_id, user_id) ==
    IF UniqueConflict(tbl, post_id, user_id)
    THEN tbl
    ELSE tbl \cup {[id |-> id, post_id |-> post_id, user_id |-> user_id]}

\* (mutation) the DELETE is issued only when the row was read to exist
PostLikeWrite_SkipDelete(r) ==
    /\ req[r].pc = "write"
    /\ LET post_id == req[r].post_id
           user_id == req[r].anon_user_id[1]
       IN  IF req[r].action = T_like
           THEN /\ UniqueConflict(likes, post_id, user_id) \/ next_id <= MaxId
                /\ likes' = InsertLike(likes, next_id, post_id, user_id)
                /\ next_id' = IF likes' = likes THEN next_id ELSE next_id + 1
                /\ req' = [req EXCEPT ![r].pc = "count", ![r].liked = TRUE]
           ELSE IF req[r].action = T_unlike
           THEN /\ likes' = IF req[r].currently_liked
                             THEN DeleteLike(likes, post_id, user_id)
                             ELSE likes
                /\ req' = [req EXCEPT ![r].pc = "count", ![r].liked = FALSE]
                /\ UNCHANGED next_id
           ELSE /\ req' = [req EXCEPT ![r] = Abort(@, 400, "Invalid action")]
                /\ UNCHANGED <<likes, next_id>>

\* (mutation) the branches forget to set liked: the row read is reported
PostLikeWrite_LikedFromRead(r) ==
    /\ req[r].pc = "write"
    /\ LET post_id == req[r].post_id
           user_id == req[r].anon_user_id[1]
       IN  IF req[r].action = T_like
           THEN /\ UniqueConflict(likes, post_id, user_id) \/ next_id <= MaxId
                /\ likes' = InsertLike(likes, next_id, post_id, user_id)
                /\ next_id' = IF likes' = likes THEN next_id ELSE next_id + 1
                /\ req' = [req EXCEPT ![r].pc = "count"]
           ELSE IF req[r].action = T_unlike
           THEN /\ likes' = DeleteLike(likes, post_id, user_id)
                /\ req' = [req EXCEPT ![r].pc = "count"]
                /\ UNCHANGED next_id
           ELSE /\ req' = [req EXCEPT ![r] = Abort(@, 400, "Invalid action")]
                /\ UNCHANGED <<likes, next_id>>

PostLikeWrite(r) ==
    /\ req[r].pc = "write"
    /\ LET post_id == req[r].post_id
           user_id == req[r].anon_user_id[1]
       IN  IF req[r].action = T_like
           THEN /\ UniqueConflict(likes, post_id, user_id) \/ next_id <= MaxId
                /\ likes' = InsertLike(likes, next_id, post_id, user_id)
                /\ next_id' = IF likes' = likes THEN next_id ELSE next_id + 1
                /\ req' = [req EXCEPT ![r].pc = "count", ![r].liked = TRUE]
           ELSE IF req[r].action = T_unlike
           THEN /\ likes' = DeleteLike(likes, post_id, user_id)
                /\ req' = [req EXCEPT ![r].pc = "count", ![r].liked = FALSE]
                /\ UNCHANGED next_id
           ELSE /\ req' = [req EXCEPT ![r] = Abort(@, 400, "Invalid action")]
                /\ UNCHANGED <<likes, next_id>>

PostLikeCount(r) ==
    /\ req[r].pc = "count"
    /\ req' = [req EXCEPT ![r] =
                 [@ EXCEPT !.pc = "after", !.status = 200, !.body = "json",
                           !.count = CountLikes(likes, req[r].post_id)]]
    /\ UNCHANGED <<likes, next_id>>

-----------------------------------------------------------------------------
(* post_detail *)

PostDetailLookup(r) ==
    /\ req[r].pc = "view"
    /\ req[r].route = "post_detail"
    /\ \E admin_authenticated \in BOOLEAN :
          LET row == PostBySlug(req[r].slug)
          IN  req' = [req EXCEPT ![r] =
                        IF row = None THEN Abort(@, 404, "")
                        ELSE IF ~row[1].published /\ ~admin_authenticated
                        THEN Abort(@, 404, "")
                        ELSE [@ EXCEPT !.pc = "detail_count",
                                       !.post_id = row[1].id]]
    /\ UNCHANGED <<likes, next_id>>

PostDetailCount(r) ==
    /\ req[r].pc = "detail_count"
    /\ req' = [req EXCEPT ![r] =
                 [@ EXCEPT !.pc = "detail_liked",
                           !.count = CountLikes(likes, req[r].post_id)]]
    /\ UNCHANGED <<likes, next_id>>

PostDetailLiked(r) ==
    /\ req[r].pc = "detail_liked"
    /\ req' = [req EXCEPT ![r] =
                 [@ EXCEPT !.pc = "after", !.status = 200, !.body = "post.html",
                           !.liked = LikeRows(likes, req[r].post_id,
                                              req[r].anon_user_id[1]) # {}]]
    /\ UNCHANGED <<likes, next_id>>

-----------------------------------------------------------------------------
(* after_request, and the end of the request *)

GraUidCookie(uid, is_secure) ==
    [value |-> uid, max_age |-> 60 * 60 * 24 * 365 * 2,
     httponly |-> TRUE, samesite |-> "Lax", secure |-> is_secure]

\* (mutation) the cookie is re-set on every response that has an identifier
persist_anon_user_id_Always(rec, is_secure) ==
    IF Truthy(rec.anon_user_id)
    THEN [rec EXCEPT !.pc = "done", !.is_secure = is_secure,
                     !.set_cookie = Some(GraUidCookie(rec.anon_user_id[1], is_secure))]
    ELSE [rec EXCEPT !.pc = "done", !.is_secure = is_secure]

\* is_secure: what request.is_secure reads when the hook runs
persist_anon_user_id(rec, is_secure) ==
    IF Truthy(rec.set_gra_uid)
    THEN [rec EXCEPT !.pc = "done", !.is_secure = is_secure,
                     !.set_cookie = Some(GraUidCookie(rec.set_gra_uid[1], is_secure))]
    ELSE [rec EXCEPT !.pc = "done", !.is_secure = is_secure]

AfterRequest(r, in) ==
    /\ req[r].pc = "after"
    /\ \E is_secure \in in.secure :
          req' = [req EXCEPT ![r] = persist_anon_user_id(req[r], is_secure)]
    /\ UNCHANGED <<likes, next_id>>

\* the response is sent and the request context torn down
Finish(r) ==
    /\ req[r].pc = "done"
    /\ req' = [req EXCEPT ![r] = Idle]
    /\ UNCHANGED <<likes, next_id>>

-----------------------------------------------------------------------------
(* Specifications *)

\* Observers, never read by the requests:
\*   before  the post_likes table as the request under way found it
\*   last    the like request answered just before the one under way
\*   racing  the pairs of slots whose requests stood at their INSERT at the
\*           same time, each having read that its visitor has no row
\*   overtaken  the slots whose request has run its INSERT or DELETE and has
\*           since seen another request of the same visitor on the same post
\*           run its own
\*   inserted  the (post, visitor) pairs whose last committed write was an
\*           INSERT; an INSERT refused by the uniqueness constraint commits
\*           nothing
\*   sent    what the request under way brought for the CSRF check
hist == <<before, last>>

\* the session of one browser over time (generate_csrf_token and
\* validate_csrf_token called on it), which the request slots do not touch
browser == <<flask_session, now, token, valid>>

\* what the interleaved requests leave alone, and what the requests handled
\* one at a time leave alone
pager == <<page_arg, total_count, shown>>
apart == <<hist, sent, browser, pager>>
aside == <<racing, overtaken, inserted, sent, browser, pager>>

AtInsert(rq, r) ==
    /\ rq[r].pc = "write"
    /\ rq[r].action = T_like
    /\ ~rq[r].currently_liked

Races(rq) ==
    { pair \in SUBSET Reqs :
        /\ Cardinality(pair) = 2
        /\ \A r \in pair : AtInsert(rq, r)
        /\ \A r \in pair, s \in pair :
              /\ rq[r].post_id = rq[s].post_id
              /\ rq[r].anon_user_id = rq[s].anon_user_id }

\* the request in slot r is past its INSERT or DELETE statement
PastWrite(rq, r) ==
    /\ rq[r].route = "post_like_api"
    /\ rq[r].action \in {T_like, T_unlike}
    /\ rq[r].pc \in {"count", "after", "done"}

\* the slots that run their INSERT or DELETE statement in this step
Writers == { s \in Reqs : req[s].pc = "write" /\ PastWrite(req', s) }

Overtaken ==
    { r \in Reqs :
        /\ PastWrite(req, r)
        /\ \E s \in Writers \ {r} :
              /\ req[s].post_id = req[r].post_id
              /\ req[s].anon_user_id = req[r].anon_user_id }

Inserted(s) ==
    LET pair == <<req[s].post_id, req[s].anon_user_id[1]>>
        conflict == \E row \in likes : /\ row.post_id = pair[1]
                                        /\ row.user_id = pair[2]
    IN  IF req[s].action = T_unlike THEN inserted \ {pair}
        ELSE IF conflict THEN inserted
        ELSE inserted \cup {pair}

Observe ==
    /\ racing' = { pair \in racing : \A r \in pair : req'[r].pc # "idle" }
                    \cup Races(req')
    /\ overtaken' = { r \in overtaken \cup Overtaken : req'[r].pc # "idle" }
    /\ inserted' = IF Writers = {} THEN inserted
                   ELSE Inserted(CHOOSE s \in Writers : TRUE)

\* Spec: requests interleave freely between their steps
Next ==
    \/ \E r \in Reqs : BeforeRequest(r, RaceInputs) /\ Observe /\ UNCHANGED apart
    \/ \E r \in Reqs : Dispatch(r, RaceInputs) /\ Observe /\ UNCHANGED apart
    \/ \E r \in Reqs : PostLikeLookup(r, RaceInputs) /\ Observe /\ UNCHANGED apart
    \/ \E r \in Reqs : PostLikeRead(r) /\ Observe /\ UNCHANGED apart
    \/ \E r \in Reqs : PostLikeWrite(r) /\ Observe /\ UNCHANGED apart
    \/ \E r \in Reqs : PostLikeCount(r) /\ Observe /\ UNCHANGED apart
    \/ \E r \in Reqs : PostDetailLookup(r) /\ Observe /\ UNCHANGED apart
    \/ \E r \in Reqs : PostDetailCount(r) /\ Observe /\ UNCHANGED apart
    \/ \E r \in Reqs : PostDetailLiked(r) /\ Observe /\ UNCHANGED apart
    \/ \E r \in Reqs : AfterRequest(r, RaceInputs) /\ Observe /\ UNCHANGED apart
    \/ \E r \in Reqs : Finish(r) /\ Observe /\ UNCHANGED apart

Spec == Init /\ [][Next]_vars

\* SeqSpec: one request at a time, each starting when the one before it has
\* been answered
Alone(r) == \A s \in Reqs \ {r} : req[s].pc = "idle"

SeqNext ==
    \/ \E r \in Reqs : Alone(r) /\ BeforeRequest(r, AllInputs) /\ before' = likes
                          /\ UNCHANGED <<last, aside>>
    \/ \E r \in Reqs : Alone(r) /\ Dispatch(r, AllInputs)
                          /\ UNCHANGED <<hist, aside>>
    \/ \E r \in Reqs : Alone(r) /\ PostLikeLookup(r, AllInputs)
                          /\ UNCHANGED <<hist, aside>>
    \/ \E r \in Reqs : Alone(r) /\ PostLikeRead(r) /\ UNCHANGED <<hist, aside>>
    \/ \E r \in Reqs : Alone(r) /\ PostLikeWrite(r) /\ UNCHANGED <<hist, aside>>
    \/ \E r \in Reqs : Alone(r) /\ PostLikeCount(r) /\ UNCHANGED <<hist, aside>>
    \/ \E r \in Reqs : Alone(r) /\ PostDetailLookup(r) /\ UNCHANGED <<hist, aside>>
    \/ \E r \in Reqs : Alone(r) /\ PostDetailCount(r) /\ UNCHANGED <<hist, aside>>
    \/ \E r \in Reqs : Alone(r) /\ PostDetailLiked(r) /\ UNCHANGED <<hist, aside>>
    \/ \E r \in Reqs : Alone(r) /\ AfterRequest(r, AllInputs)
                          /\ UNCHANGED <<hist, aside>>
    \/ \E r \in Reqs : Alone(r) /\ Finish(r) /\ last' = Summary(req[r])
                          /\ UNCHANGED <<before, aside>>

SeqSpec == Init /\ [][SeqNext]_vars

\* GateSpec: one request at a time, with every way of sending a CSRF token;
\* what the request brought for the check is kept in sent
GateNext ==
    \/ \E r \in Reqs, csrf \in GateInputs.csrf :
          /\ Alone(r)
          /\ BeforeRequest(r, [GateInputs EXCEPT !.csrf = {csrf}])
          /\ before' = likes /\ sent' = csrf
          /\ UNCHANGED <<last, racing, overtaken, inserted, browser, pager>>
    \/ \E r \in Reqs : Alone(r) /\ Dispatch(r, GateInputs)
                          /\ UNCHANGED <<hist, aside>>
    \/ \E r \in Reqs : Alone(r) /\ PostLikeLookup(r, GateInputs)
                          /\ UNCHANGED <<hist, aside>>
    \/ \E r \in Reqs : Alone(r) /\ PostLikeRead(r) /\ UNCHANGED <<hist, aside>>
    \/ \E r \in Reqs : Alone(r) /\ PostLikeWrite(r) /\ UNCHANGED <<hist, aside>>
    \/ \E r \in Reqs : Alone(r) /\ PostLikeCount(r) /\ UNCHANGED <<hist, aside>>
    \/ \E r \in Reqs : Alone(r) /\ PostDetailLookup(r) /\ UNCHANGED <<hist, aside>>
    \/ \E r \in Reqs : Alone(r) /\ PostDetailCount(r) /\ UNCHANGED <<hist, aside>>
    \/ \E r \in Reqs : Alone(r) /\ PostDetailLiked(r) /\ UNCHANGED <<hist, aside>>
    \/ \E r \in Reqs : Alone(r) /\ AfterRequest(r, GateInputs)
                          /\ UNCHANGED <<hist, aside>>
    \/ \E r \in Reqs : Alone(r) /\ Finish(r) /\ last' = Summary(req[r])
                          /\ UNCHANGED <<before, aside>>

GateSpec == Init /\ [][GateNext]_vars

\* CsrfSpec: one browser session over time.  A page is rendered and calls
\* csrf_token() (generate_csrf_token); the form is submitted at once with the
\* token the page got, and validate_csrf_token gives its verdict; time passes.
\*   token  the token the page rendered last holds, None once time has passed
\*   valid  the verdict on the form just submitted, None when none was
served == <<likes, next_id, req, hist, racing, overtaken, inserted, sent,
            pager>>

FreshTokens == {"T1", "T2"}
TickSteps == {1, CSRF_TTL_SECONDS}

RenderPage ==
    /\ \E fresh \in FreshTokens :
          LET got == generate_csrf_token(flask_session, now, fresh)
          IN  /\ flask_session' = got.session
              /\ token' = Some(got.token)
    /\ valid' = None
    /\ UNCHANGED <<now, served>>

SubmitForm ==
    /\ token # None
    /\ valid' = Some(validate_csrf_token(token, None, None, flask_session, now))
    /\ UNCHANGED <<flask_session, now, token, served>>

Tick ==
    /\ \E d \in TickSteps :
          /\ now + d <= Epoch + CSRF_TTL_SECONDS + MaxSlack
          /\ (now + d - Epoch) % CSRF_TTL_SECONDS <= MaxSlack
          /\ now' = now + d
    /\ token' = None
    /\ valid' = None
    /\ UNCHANGED <<flask_session, served>>

CsrfNext == RenderPage \/ SubmitForm \/ Tick

CsrfSpec == Init /\ [][CsrfNext]_vars

\* PageSpec: the reports page asked for with any page query, over any number
\* of published posts, and its prev/next links followed
ReportsIndex ==
    /\ \E q \in PageQueries, n \in 0..MaxPosts :
          /\ page_arg' = q
          /\ total_count' = n
          /\ shown' = reports_index(q, n)
    /\ UNCHANGED <<likes, next_id, req, hist, racing, overtaken, inserted,
                   sent, browser>>

FollowLink ==
    /\ \E link \in {shown.prev_url, shown.next_url} \ {None} :
          /\ page_arg' = link
          /\ shown' = reports_index(link, total_count)
    /\ UNCHANGED <<total_count, likes, next_id, req, hist, racing, overtaken,
                   inserted, sent, browser>>

PageNext == ReportsIndex \/ FollowLink

PageSpec == Init /\ [][PageNext]_vars

-----------------------------------------------------------------------------
(* Requests under way *)

\* the rows of a table for a (post, visitor) pair, and the number of rows of
\* a post
PairRows(tbl, p, u) == { row \in tbl : row.post_id = p /\ row.user_id = u }
NumRows(tbl, p) == Cardinality({ row \in tbl : row.post_id = p })

\* the request in slot r is a like request on an existing post that has
\* got past its INSERT or DELETE statement
Wrote(r) ==
    /\ req[r].route = "post_like_api"
    /\ req[r].method \in RouteMethods("post_like_api")
    /\ PostBySlug(req[r].slug) # None
    /\ ~AsksNothingKnown(req[r].field)
    /\ req[r].pc \in {"count", "after", "done"}

\* the request in slot r has its response
HasResponse(r) == req[r].pc \in {"after", "done"}

\* the request in slot r has been answered
Answered(r) == req[r].pc = "done"

SamePair(r, s) ==
    /\ req[r].post_id = req[s].post_id
    /\ req[r].anon_user_id = req[s].anon_user_id

-----------------------------------------------------------------------------
(* C1: in every reachable state, whatever the interleaving of like, unlike *)
(* and toggle requests, post_likes holds at most one row for each          *)
(* (post_id, user_id) pair.                                                *)
C1_OneRowPerPair ==
    \A row1 \in likes, row2 \in likes :
        (row1.post_id = row2.post_id /\ row1.user_id = row2.user_id)
            => row1 = row2

\* two overlapping like requests of one visitor have both run their INSERT
C1_Witness ==
    \E r \in Reqs : \E s \in Reqs \ {r} :
        /\ Wrote(r) /\ Wrote(s) /\ SamePair(r, s)
        /\ AsksLike(req[r].field) /\ AsksLike(req[s].field)
        /\ ~req[r].currently_liked /\ ~req[s].currently_liked
        /\ PairRows(likes, req[r].post_id, req[r].anon_user_id[1]) # {}


-----------------------------------------------------------------------------
(* C2: when two like requests of one visitor for one existing post overlap *)
(* (both read currently_liked before either inserts), both are answered    *)
(* 200 with liked = true, neither ends in an error, and the post gains     *)
(* exactly one row, not two: the INSERT that runs first adds one row, the  *)
(* other leaves the table as it is, and both report the resulting count.   *)
C2_State ==
    \A pair \in racing : \A r \in pair :
        /\ AsksLike(req[r].field) \/ AsksToggle(req[r].field)
        /\ req[r].pc \in {"write", "count", "after", "done"}
        /\ req[r].pc # "write" =>
              /\ req[r].liked
              /\ Cardinality(PairRows(likes, req[r].post_id,
                                      req[r].anon_user_id[1])) = 1
        /\ HasResponse(r) =>
              /\ req[r].status = 200 /\ req[r].body = "json"
              /\ req[r].count = NumRows(likes, req[r].post_id)

\* the INSERT of r, in a race with s: one more row if s is still to insert,
\* no change if s has inserted
C2_Step ==
    \A pair \in racing : \A r \in pair : \A s \in pair \ {r} :
        (req[r].pc = "write" /\ req'[r].pc # "write") =>
            NumRows(likes', req[r].post_id) =
                NumRows(likes, req[r].post_id)
                    + (IF req[s].pc = "write" THEN 1 ELSE 0)

C2_RacingLikesBothSucceed == []C2_State /\ [][C2_Step]_vars

\* both racing requests asked for like and have been answered
C2_Witness ==
    \E pair \in racing :
        \A r \in pair :
            /\ AsksLike(req[r].field)
            /\ Answered(r) /\ req[r].status = 200 /\ req[r].liked


-----------------------------------------------------------------------------
(* Requests answered one at a time (SeqSpec) *)

\* slot r holds an answered request that the like view handled for a post
\* that exists
LikeAnswered(r) ==
    /\ Answered(r)
    /\ req[r].route = "post_like_api"
    /\ req[r].method \in RouteMethods("post_like_api")
    /\ PostBySlug(req[r].slug) # None

ThePost(r) == PostBySlug(req[r].slug)[1].id
TheVisitor(r) == req[r].anon_user_id[1]

\* the request answered just before was a like request for the same pair
LastSamePair(r) ==
    /\ last.post_id = ThePost(r)
    /\ last.user_id = TheVisitor(r)

-----------------------------------------------------------------------------
(* C3: for an existing post and any visitor, whatever the table held, a    *)
(* request with action=like is answered liked = true and leaves exactly    *)
(* one row for the pair; when the request answered just before it was a    *)
(* like of the same pair, that one returned liked = true too and the table *)
(* is exactly as it left it.                                               *)
C3_LikeTwice ==
    \A r \in Reqs :
        (LikeAnswered(r) /\ AsksLike(req[r].field)) =>
            /\ req[r].status = 200
            /\ req[r].liked
            /\ Cardinality(PairRows(likes, ThePost(r), TheVisitor(r))) = 1
            /\ (LastSamePair(r) /\ last.asked = "like") =>
                  /\ last.liked
                  /\ likes = before

\* the second of two likes in a row has been answered
C3_Witness ==
    \E r \in Reqs :
        /\ LikeAnswered(r) /\ AsksLike(req[r].field)
        /\ LastSamePair(r) /\ last.asked = "like"
        /\ req[r].liked /\ likes = before /\ likes # {}

-----------------------------------------------------------------------------
(* C4: for an existing post and any visitor, a request with action=unlike  *)
(* is answered 200 with liked = false whether or not the pair had a row;   *)
(* afterwards the pair has no row and every other row is as it was.        *)
C4_Unlike ==
    \A r \in Reqs :
        (LikeAnswered(r) /\ AsksUnlike(req[r].field)) =>
            /\ req[r].status = 200
            /\ ~req[r].liked
            /\ PairRows(likes, ThePost(r), TheVisitor(r)) = {}
            /\ likes = before \ PairRows(before, ThePost(r), TheVisitor(r))

\* an unlike by a visitor with no row, other rows being in the table
C4_Witness ==
    \E r \in Reqs :
        /\ LikeAnswered(r) /\ AsksUnlike(req[r].field)
        /\ PairRows(before, ThePost(r), TheVisitor(r)) = {}
        /\ before # {}
        /\ req[r].status = 200 /\ ~req[r].liked

-----------------------------------------------------------------------------
(* C5: requests of one visitor on one existing post with action=toggle, or *)
(* with the action field missing or empty, each return the negation of the *)
(* pair's liked state before it, so successive toggles alternate, and the  *)
(* pair's row exists exactly when the response said liked = true.          *)
C5_Toggle ==
    \A r \in Reqs :
        (LikeAnswered(r) /\ AsksToggle(req[r].field)) =>
            /\ req[r].status = 200
            /\ req[r].liked = (PairRows(before, ThePost(r), TheVisitor(r)) = {})
            /\ req[r].liked = (PairRows(likes, ThePost(r), TheVisitor(r)) # {})
            /\ (LastSamePair(r) /\ last.asked = "toggle") =>
                  req[r].liked = ~last.liked

\* liked, not liked, liked: a toggle answered true right after one answered
\* false, on the second row the table was ever given; the field was sent empty
C5_Witness ==
    \E r \in Reqs :
        /\ LikeAnswered(r) /\ req[r].field = Some(<<>>)
        /\ LastSamePair(r) /\ last.asked = "toggle" /\ ~last.liked
        /\ req[r].liked
        /\ likes = {[id |-> 2, post_id |-> ThePost(r), user_id |-> TheVisitor(r)]}

-----------------------------------------------------------------------------
(* C6: for requests on one post answered one after the other, the count    *)
(* returned is one more than before exactly when a visitor without a row   *)
(* likes, one less exactly when a visitor with a row unlikes, the same     *)
(* otherwise; and no request changes the rows of another visitor.          *)
WasLiked(r) == PairRows(before, ThePost(r), TheVisitor(r)) # {}

CountChange(r) ==
    IF ~WasLiked(r) /\ (AsksLike(req[r].field) \/ AsksToggle(req[r].field))
    THEN 1
    ELSE IF WasLiked(r) /\ (AsksUnlike(req[r].field) \/ AsksToggle(req[r].field))
    THEN -1
    ELSE 0

C6_CountSteps ==
    \A r \in Reqs :
        (LikeAnswered(r) /\ req[r].status = 200) =>
            /\ req[r].count = NumRows(before, ThePost(r)) + CountChange(r)
            /\ (last.post_id = ThePost(r)) =>
                  req[r].count = last.count + CountChange(r)
            /\ \A row \in (before \cup likes) :
                  row.user_id # TheVisitor(r) => (row \in before /\ row \in likes)

\* 0 likes, G likes (1), H likes (2), G unlikes: count 1 and H still liked
C6_Witness ==
    \E r \in Reqs :
        /\ LikeAnswered(r) /\ AsksUnlike(req[r].field)
        /\ TheVisitor(r) = "G"
        /\ before = {[id |-> 1, post_id |-> ThePost(r), user_id |-> "G"],
                     [id |-> 2, post_id |-> ThePost(r), user_id |-> "H"]}
        /\ last.user_id = "H" /\ last.count = 2 /\ last.liked
        /\ req[r].count = 1
        /\ likes = {[id |-> 2, post_id |-> ThePost(r), user_id |-> "H"]}


-----------------------------------------------------------------------------
(* C7: a request handled by the like view whose slug matches no post is    *)
(* answered 404 whatever its action field holds, valid or not, and the     *)
(* post_likes table is as the request found it.                            *)
KnownSlugs == { p.slug : p \in Posts }

UnknownSlugAnswered(r) ==
    /\ Answered(r)
    /\ req[r].route = "post_like_api"
    /\ req[r].method \in RouteMethods("post_like_api")
    /\ req[r].slug \notin KnownSlugs

C7_UnknownSlug ==
    \A r \in Reqs :
        UnknownSlugAnswered(r) => (req[r].status = 404 /\ likes = before)

\* an unknown slug with an action that is not valid either, the table
\* holding rows
C7_Witness ==
    \E r \in Reqs :
        /\ UnknownSlugAnswered(r)
        /\ req[r].field = F_explode
        /\ req[r].status = 404
        /\ likes # {}

-----------------------------------------------------------------------------
(* C8: a request handled by the like view for an existing post whose       *)
(* action, trimmed and lower-cased, is none of like, unlike, toggle is     *)
(* answered 400 "Invalid action", and the post_likes table is as the       *)
(* request found it.                                                       *)
C8_InvalidAction ==
    \A r \in Reqs :
        (LikeAnswered(r) /\ AsksNothingKnown(req[r].field)) =>
            /\ req[r].status = 400
            /\ req[r].body = "Invalid action"
            /\ likes = before

\* an action of white space only, sent by a visitor whose row a toggle
\* would have removed
C8_Witness ==
    \E r \in Reqs :
        /\ LikeAnswered(r) /\ req[r].field = Some(<<" ">>)
        /\ req[r].status = 400
        /\ WasLiked(r)

-----------------------------------------------------------------------------
(* C9: the Identity Assigner and the requests it sees.                     *)
HasCookie(r) == req[r].cookie \notin {None, Some("")}

\* an identifier was generated and the response sets gra_uid to it
IdentityAssigned(r) ==
    /\ req[r].anon_user_id # None
    /\ req[r].anon_user_id[1] \in AllInputs.gen_ids
    /\ req[r].set_cookie # None
    /\ req[r].set_cookie[1].value = req[r].anon_user_id[1]

\* csrf_protect() turned the request down
CsrfRejected(r) ==
    req[r].status = 400 /\ req[r].body = "Invalid CSRF token"

\* C9 as claimed: every inbound request, of any method and whether it is
\* later served or rejected, passes through the Identity Assigner: arriving
\* without a non-empty gra_uid cookie, it gets an identifier generated and
\* the response sets gra_uid to it.
C9_EveryRequestAssigned ==
    \A r \in Reqs :
        (Answered(r) /\ ~HasCookie(r)) => IdentityAssigned(r)

\* C9 as amended: every inbound request that csrf_protect() does not turn
\* down, of any method and whether it is later served or rejected (404, 405,
\* 400 for an invalid action), passes through the Identity Assigner; a
\* request that csrf_protect() turns down is answered 400 with no identifier
\* generated and no cookie set.
C9_AssignedUnlessCsrfRejected ==
    \A r \in Reqs :
        (Answered(r) /\ ~HasCookie(r)) =>
            IF CsrfRejected(r)
            THEN req[r].anon_user_id = None /\ req[r].set_cookie = None
            ELSE IdentityAssigned(r)

\* a PUT with an empty gra_uid cookie, refused by the router (405) after the
\* Identity Assigner ran
C9_Witness ==
    \E r \in Reqs :
        /\ Answered(r) /\ req[r].cookie = Some("")
        /\ req[r].method = "PUT" /\ req[r].status = 405
        /\ IdentityAssigned(r)

-----------------------------------------------------------------------------
(* C10: a request carrying a non-empty gra_uid cookie is handled under     *)
(* exactly that value, whatever it looks like: the like view reads the row *)
(* of (post, cookie value), and the post page reports liked exactly when   *)
(* that row exists, so a like recorded by the request before is reported   *)
(* to the same cookie value, and not to another value without a row.       *)
C10_CookieIsTheVisitor ==
    \A r \in Reqs :
        (HasCookie(r) /\ req[r].pc # "idle" /\ ~CsrfRejected(r)) =>
            /\ req[r].anon_user_id = req[r].cookie
            /\ req[r].set_gra_uid = None /\ req[r].set_cookie = None
            /\ (req[r].route = "post_like_api" /\ req[r].pc \in {"write", "count"}) =>
                  req[r].currently_liked =
                      (PairRows(before, req[r].post_id, req[r].cookie[1]) # {})
            /\ (Answered(r) /\ req[r].route = "post_detail" /\ req[r].status = 200) =>
                  /\ req[r].liked =
                        (PairRows(likes, req[r].post_id, req[r].cookie[1]) # {})
                  /\ (last.liked /\ last.post_id = req[r].post_id
                        /\ last.user_id = req[r].cookie[1]) => req[r].liked

\* the post page shown to the cookie value whose like was recorded by the
\* request before, another visitor having no row
C10_Witness ==
    \E r \in Reqs :
        /\ Answered(r) /\ req[r].route = "post_detail" /\ req[r].status = 200
        /\ req[r].cookie = Some("H")
        /\ last.liked /\ last.post_id = req[r].post_id /\ last.user_id = "H"
        /\ req[r].liked /\ req[r].count = 1

-----------------------------------------------------------------------------
(* C11: the response sets the gra_uid cookie if and only if an identifier  *)
(* was generated for the request, so never for a request that carried a    *)
(* non-empty gra_uid; the cookie set is HttpOnly, SameSite=Lax, Secure     *)
(* exactly when the request came over a secure transport, and its max age  *)
(* is 63,072,000 seconds.                                                  *)
NewIdentifier(r) == req[r].set_gra_uid # None

C11_CookieSetWhenGenerated ==
    \A r \in Reqs :
        Answered(r) =>
            /\ (req[r].set_cookie # None) <=> NewIdentifier(r)
            /\ HasCookie(r) => req[r].set_cookie = None
            /\ req[r].set_cookie # None =>
                  LET c == req[r].set_cookie[1]
                  IN  /\ c.value = req[r].set_gra_uid[1]
                      /\ c.httponly
                      /\ c.samesite = "Lax"
                      /\ c.secure = req[r].is_secure
                      /\ c.max_age = 63072000

\* a request that came without a cookie over a secure transport, served,
\* its response setting the cookie with the Secure flag
C11_Witness ==
    \E r \in Reqs :
        /\ Answered(r) /\ req[r].status = 200
        /\ req[r].cookie = None /\ req[r].is_secure
        /\ req[r].set_cookie # None /\ req[r].set_cookie[1].secure

-----------------------------------------------------------------------------
(* C12: a POST changes the Like table only if it sent a token equal to the *)
(* session's CSRF token, issued at most 3600 seconds earlier; the token is *)
(* taken from the csrf_token form field, else the X-CSRF-Token header,     *)
(* else the csrf_token field of the JSON body, the first non-empty one     *)
(* winning; a request failing the check is answered 400 before the post is *)
(* looked up, the Like table unchanged, and one passing it is not turned   *)
(* down by the check.                                                      *)
JsonField(c) ==
    IF c.json # None /\ c.json[1].is_dict THEN c.json[1].csrf_token ELSE None

\* the first non-empty of the three carriers, None when all are empty
FirstSent(c) ==
    LET carriers == <<c.form_tok, c.header_tok, JsonField(c)>>
        filled == { i \in 1..3 : carriers[i] \notin {None, Some("")} }
    IN  IF filled = {} THEN None
        ELSE carriers[CHOOSE i \in filled : \A j \in filled : i <= j]

TokenOK(c) ==
    /\ FirstSent(c) # None
    /\ FirstSent(c) = c.session.token
    /\ c.session.ts # None
    /\ c.time - c.session.ts[1] <= 3600

C12_CsrfGate ==
    \A r \in Reqs :
        (req[r].pc # "idle" /\ req[r].method = "POST") =>
            /\ likes # before => TokenOK(sent)
            /\ TokenOK(sent) => ~CsrfRejected(r)
            /\ ~TokenOK(sent) =>
                  /\ HasResponse(r) /\ CsrfRejected(r)
                  /\ req[r].route = "" /\ req[r].post_id = 0
                  /\ likes = before

\* an unlike carrying its token in the JSON body (empty header, no form
\* field) has removed the visitor's row
C12_Witness ==
    \E r \in Reqs :
        /\ Answered(r) /\ req[r].method = "POST" /\ req[r].status = 200
        /\ sent.form_tok = None /\ sent.header_tok = Some("")
        /\ sent.json = JsonDict(Some("T1"))
        /\ likes # before

-----------------------------------------------------------------------------
(* C13: the count a successful like request returns is never negative and  *)
(* is the number of rows stored for its post at the instant the count is   *)
(* read, which is after the request's own INSERT or DELETE; nothing keeps  *)
(* a counter, so while no other request is in flight the count returned    *)
(* stays the row count of the table.                                       *)
Served(rq, r) ==
    /\ rq[r].route = "post_like_api"
    /\ rq[r].status = 200
    /\ rq[r].pc \in {"after", "done"}

IdleOthers(rq, r) == \A s \in Reqs \ {r} : rq[s].pc = "idle"

C13_State ==
    \A r \in Reqs : Served(req, r) => req[r].count >= 0

C13_Step ==
    \A r \in Reqs :
        /\ (~Served(req, r) /\ Served(req', r)) =>
              /\ Wrote(r) /\ req[r].pc = "count"
              /\ req'[r].count = NumRows(likes, req[r].post_id)
              /\ likes' = likes
        /\ (Served(req, r) /\ Served(req', r)
              /\ IdleOthers(req, r) /\ IdleOthers(req', r)
              /\ req[r].count = NumRows(likes, req[r].post_id)) =>
              req'[r].count = NumRows(likes', req'[r].post_id)

C13_LiveCount == []C13_State /\ [][C13_Step]_vars

\* a like answered with count 2: the row of another visitor, whose request
\* is still under way, was stored in between and is counted
C13_Witness ==
    \E r \in Reqs : \E s \in Reqs \ {r} :
        /\ Served(req, r) /\ req[r].liked /\ req[r].count = 2
        /\ Wrote(s) /\ req[s].pc = "count" /\ req[s].liked
        /\ req[s].anon_user_id # req[r].anon_user_id

-----------------------------------------------------------------------------
(* C14: requests of different visitors on one post are independent: once a *)
(* like or unlike request has run its INSERT or DELETE, its visitor's row  *)
(* exists exactly when it asked for like, whatever requests of other       *)
(* visitors ran before, between or after, in any order; so the table the   *)
(* requests of distinct visitors leave is the same under every             *)
(* interleaving, and each visitor's liked state is set by their own        *)
(* request alone.                                                          *)
C14_OtherVisitorsApart ==
    \A r \in Reqs :
        (Wrote(r) /\ r \notin overtaken) =>
            /\ req[r].liked = (req[r].action = T_like)
            /\ (PairRows(likes, ThePost(r), TheVisitor(r)) # {}) = req[r].liked

\* a like of one visitor and an unlike of another, under way together on the
\* same post, both answered: the unlike removed its visitor's row, the like
\* stored its own, and only that row is left
C14_Witness ==
    \E r \in Reqs : \E s \in Reqs \ {r} :
        /\ Answered(r) /\ Wrote(r) /\ req[r].liked
        /\ Answered(s) /\ Wrote(s) /\ ~req[s].liked /\ req[s].currently_liked
        /\ ThePost(r) = ThePost(s) /\ TheVisitor(r) # TheVisitor(s)
        /\ ~req[r].currently_liked
        /\ Cardinality(likes) = 1
        /\ PairRows(likes, ThePost(r), TheVisitor(r)) # {}

-----------------------------------------------------------------------------
(* C15: for overlapping requests of one visitor on one post, once all have *)
(* completed (and at every moment before), the pair's row exists if and    *)
(* only if the last write committed for the pair was an INSERT, an INSERT  *)
(* absorbed as a uniqueness conflict counting as no write.                 *)
C15_LastWriteWins ==
    \A p \in {post.id : post \in Posts} : \A u \in AllInputs.gen_ids :
        (PairRows(likes, p, u) # {}) <=> (<<p, u>> \in inserted)

\* a like and an unlike of one visitor that both read "no row": the like
\* stored the row and was answered liked=true, count 1; the unlike committed
\* last and the row is gone
C15_Witness ==
    \E r \in Reqs : \E s \in Reqs \ {r} :
        /\ Answered(r) /\ Answered(s) /\ Wrote(r) /\ Wrote(s)
        /\ SamePair(r, s)
        /\ ~req[r].currently_liked /\ ~req[s].currently_liked
        /\ req[r].liked /\ req[r].count = 1
        /\ ~req[s].liked /\ req[s].count = 0
        /\ PairRows(likes, ThePost(r), TheVisitor(r)) = {}

-----------------------------------------------------------------------------
(* C16: the liked value and the count of one response.                     *)

\* the request in slot r reads its count in this step
ReadsCount(r) == Wrote(r) /\ req[r].pc = "count" /\ Served(req', r)

RowAtCount(r) == PairRows(likes, ThePost(r), TheVisitor(r)) # {}

C16_StateAsClaimed ==
    \A r \in Reqs : (Served(req, r) /\ req[r].liked) => req[r].count >= 1

C16_StepAsClaimed ==
    \A r \in Reqs : ReadsCount(r) => (req'[r].liked = RowAtCount(r))

\* C16 as claimed: in every interleaving of like requests, a response with
\* liked=true carries count >= 1, and the liked value of a response equals
\* whether the pair's row exists at the instant its count was read.
C16_LikedMatchesRow == []C16_StateAsClaimed /\ [][C16_StepAsClaimed]_vars

C16_State ==
    \A r \in Reqs :
        (Served(req, r) /\ req[r].liked /\ r \notin overtaken) =>
            req[r].count >= 1

C16_Step ==
    \A r \in Reqs :
        ReadsCount(r) =>
            /\ req'[r].liked = (req[r].action = T_like)
            /\ r \notin overtaken => (req'[r].liked = RowAtCount(r))

\* C16 as amended: in every interleaving of like requests, the liked value
\* of a response says what the request itself did (true after its INSERT,
\* absorbed or not, false after its DELETE); it equals whether the pair's
\* row exists at the instant the count was read, and liked=true carries
\* count >= 1, whenever no other request of the same visitor on the same
\* post ran its INSERT or DELETE between this request's own and its count
\* read.
C16_LikedMatchesOwnWrite == []C16_State /\ [][C16_Step]_vars

\* a like answered liked=true with count 1, an unlike of the same visitor
\* having run its DELETE earlier, while the like was under way
C16_Witness ==
    \E r \in Reqs : \E s \in Reqs \ {r} :
        /\ Served(req, r) /\ req[r].liked /\ req[r].count = 1
        /\ r \notin overtaken
        /\ Wrote(s) /\ SamePair(r, s) /\ ~req[s].liked
        /\ s \in overtaken

-----------------------------------------------------------------------------
(* C17: at any time in a session's life, a token that generate_csrf_token  *)
(* returns, submitted at once in the same session, is accepted by          *)
(* validate_csrf_token; so a session whose token was issued more than 3600 *)
(* seconds ago gets a valid token again by calling generate_csrf_token.    *)
C17_FreshTokenAccepted ==
    valid # None => valid = Some(TRUE)

-----------------------------------------------------------------------------
(* C18: in reports_index, for every page query value (missing, not a       *)
(* number, zero, negative, beyond the last page) and every number of       *)
(* published posts, the page number used lies in 1..total_pages with       *)
(* total_pages = max(1, ceil(total/9)); a page shows at most 9 posts; the  *)
(* pages 1..total_pages together show every published post exactly once;  *)
(* prev_url exists exactly when page > 1 and next_url exactly when         *)
(* page < total_pages.                                                     *)
ExpectedPages(n) ==
    CHOOSE k \in 1..(n + 1) : 9 * k >= n /\ (k = 1 \/ 9 * (k - 1) < n)

Occurrences(list, x) == Cardinality({ i \in 1..Len(list) : list[i] = x })

\* how many times post x is shown on the pages 1..pages of n posts, each
\* asked for by its number
TimesShown(x, n, pages) ==
    LET on[k \in 0..pages] ==
            IF k = 0 THEN 0
            ELSE on[k - 1] + Occurrences(reports_index(url_for(k), n).posts, x)
    IN  on[pages]

C18_Pagination ==
    LET pages == ExpectedPages(total_count)
    IN  /\ shown.total_pages = pages
        /\ shown.page_num \in 1..pages
        /\ Len(shown.posts) <= 9
        /\ \A x \in 1..total_count : TimesShown(x, total_count, pages) = 1
        /\ (shown.prev_url # None) <=> (shown.page_num > 1)
        /\ (shown.next_url # None) <=> (shown.page_num < pages)

\* page 99 asked of 19 posts: the third and last page, with the one post
\* left for it, a link back and none forward
C18_Witness ==
    /\ page_arg = Some(<<"9","9">>) /\ total_count = 19
    /\ shown.page_num = 3 /\ shown.total_pages = 3
    /\ shown.posts = <<19>>
    /\ shown.prev_url = Some(<<"2">>) /\ shown.next_url = None

====
